---- MODULE Spec2Model ----
(***************************************************************************)
(* Model of the MQTT client connection orchestrator of rumqtt,             *)
(* src/src/client/connection.rs: Connection::start (the reconnect loop,    *)
(* the republish of the last session's publishes and the command fold),    *)
(* Connection::mqtt_connect, the ping timer task and the incoming network  *)
(* packet task, all driven by one single-threaded reactor.                 *)
(*                                                                         *)
(* client::state::MqttState is not part of the sources at hand: its        *)
(* transition functions are modelled from the specification.               *)
(***************************************************************************)
EXTENDS Integers, Sequences, FiniteSets, TLC

\* ------------------------------------------------------------------ bounds
\* connection attempts (iterations of 'reconnect) that are explored
MaxAttempts == 2
\* QoS-1 publishes the application issues; also the packet ids the broker uses
MaxPkid == 2
\* buffer of the bounded command channel (futures mpsc::channel(buffer))
CmdBuf == 1
\* bound of the notification channel (std mpsc::sync_channel(bound))
NotifCap == 1
\* events that reach the spawned tasks: frames the broker sends after the
\* handshakes and firings of the ping timers, over all transports and tasks
MaxEvents == 2

Epochs == 1..MaxAttempts
\* the payload of a request handle_client_requests rejects
TooLarge == -1

VARIABLES
    opts,            \* MqttOptions: reconnect, keep_alive, broker_addr
    mqtt_state,      \* Rc<RefCell<MqttState>>
    pc,              \* where Connection::start is
    initial_connect, \* the local of start captured at line 47
    attempt,         \* iterations of 'reconnect started so far
    republish,       \* last_session_publishes still to be re-sent
    crash,           \* the panic that ended the orchestrator thread, or "none"
    cmdq,            \* the command channel (commands_tx -> commands_rx)
    parked,          \* senders of the command channel parked over capacity
    notif,           \* the notification channel (notifier_tx)
    dropped,         \* the packets a try_send on the notifier failed on
    timers,          \* attempts whose ping timer task is in the reactor
    inbound,         \* per attempt: state of its incoming packet task
    wire,            \* packets written to the current transport
    ticked,          \* older timer tasks that fired in the current keep-alive period
    pings,           \* Request::Ping injected in the current keep-alive period
    unacked_at_end,  \* the outstanding publishes when the last attempt ended
    n_pub,           \* QoS-1 publishes the application has issued
    n_env,           \* frames received and timer firings so far
    borrows          \* who holds a Ref/RefMut of mqtt_state when a step is over

vars == << opts, mqtt_state, pc, initial_connect, attempt, republish, crash,
           cmdq, parked, notif, dropped, timers, inbound, wire, ticked,
           pings, unacked_at_end, n_pub, n_env, borrows >>

\* ----------------------------------------------------------- vocabulary
Pkt(t, id, q, pl) == [type |-> t, pkid |-> id, qos |-> q, payload |-> pl]
NoPkt == Pkt("None", 0, 0, 0)

\* a Request on the command channel; by = the attempt whose task made it
\* (0 for the application)
Req(t, id, q, pl, b) ==
    [type |-> t, pkid |-> id, qos |-> q, payload |-> pl, by |-> b]

\* the return code of a Connack (carried in payload), the payload of the
\* publishes the broker sends
Accepted == 0
InPayload == 0

\* what the broker may send on an established transport
InPackets ==
    {Pkt("Connack", 0, 0, Accepted)}
    \cup {Pkt("Puback", i, 0, 0) : i \in 1..MaxPkid}
    \cup {Pkt("Pingresp", 0, 0, 0)}
    \cup {Pkt("Publish", 0, 0, InPayload)}
    \cup {Pkt("Publish", i, 1, InPayload) : i \in 1..MaxPkid}
    \cup {Pkt("Suback", 0, 0, 0)}
    \cup {Pkt("Pubrec", 0, 0, 0)}

\* what the application may put on the command channel as its k-th publish:
\* a QoS-1 publish with payload k, or one whose payload is over the limit
AppRequests(k) == {Req("Publish", 0, 1, pl, 0) : pl \in {k, TooLarge}}

\* ------------------------------------------------ MqttState (client::state)
MqttStateNew ==
    [initial_connect |-> TRUE,
     ping_required   |-> FALSE,
     outgoing_pub    |-> << >>,
     last_pkid       |-> 0]

initial_connect_of(s) == s.initial_connect

is_ping_required(s) == s.ping_required

handle_outgoing_connect(s) == s

\* Ok: the handshake is complete, the first success is recorded
handle_incoming_connack(s, connack) ==
    IF connack.payload = Accepted
    THEN [ok |-> TRUE, state |-> [s EXCEPT !.initial_connect = FALSE]]
    ELSE [ok |-> FALSE, state |-> s]

\* None is the empty sequence
handle_reconnection(s) == s.outgoing_pub

handle_client_requests(s, r) ==
    CASE r.type = "Publish" /\ r.payload = TooLarge ->
            [ok |-> FALSE, state |-> s, packet |-> NoPkt]
      [] r.type = "Publish" /\ r.qos = 1 ->
            LET p == Pkt("Publish", s.last_pkid + 1, 1, r.payload) IN
            [ok |-> TRUE,
             state |-> [s EXCEPT !.last_pkid = s.last_pkid + 1,
                                 !.outgoing_pub = Append(s.outgoing_pub, p),
                                 !.ping_required = TRUE],
             packet |-> p]
      [] r.type = "Ping" ->
            [ok |-> TRUE, state |-> [s EXCEPT !.ping_required = TRUE],
             packet |-> Pkt("Pingreq", 0, 0, 0)]
      [] OTHER ->
            [ok |-> TRUE, state |-> [s EXCEPT !.ping_required = TRUE],
             packet |-> Pkt(r.type, r.pkid, r.qos, r.payload)]

Outstanding(s) == {s.outgoing_pub[i].pkid : i \in 1..Len(s.outgoing_pub)}

\* removes the matching publish; Err (unsolicited ack) leaves the state as is
handle_incoming_puback(s, ack) ==
    IF ack.pkid \in Outstanding(s)
    THEN [ok |-> TRUE,
          state |-> [s EXCEPT !.outgoing_pub =
                        SelectSeq(s.outgoing_pub, LAMBDA p : p.pkid # ack.pkid)]]
    ELSE [ok |-> FALSE, state |-> s]

handle_incoming_pingresp(s) == [s EXCEPT !.ping_required = FALSE]

\* (publish to deliver, reply): the reply is NoPkt for QoS-0
handle_incoming_publish(s, publish) ==
    [state   |-> s,
     publish |-> publish,
     ack     |-> IF publish.qos = 1
                 THEN Pkt("Puback", publish.pkid, 0, 0) ELSE NoPkt]

\* ------------------------------------------------------------------- Init
Init ==
    /\ opts \in [reconnect   : {"Never", "AfterFirstSuccess", "Always"},
                 keep_alive  : BOOLEAN,
                 broker_addr : {"valid", "unparsable"}]
    /\ mqtt_state = MqttStateNew
    /\ pc = "new"
    /\ initial_connect = TRUE
    /\ attempt = 0
    /\ republish = << >>
    /\ crash = "none"
    /\ cmdq = << >>
    /\ parked = << >>
    /\ notif = << >>
    /\ dropped = {}
    /\ timers = {}
    /\ inbound = [e \in Epochs |-> "none"]
    /\ wire = << >>
    /\ ticked = {}
    /\ pings = 0
    /\ unacked_at_end = << >>
    /\ n_pub = 0
    /\ n_env = 0
    /\ borrows = {}


\* --------------------------------------------------------------- channels
App == << "app", 0 >>
TimerTask(e) == << "timer", e >>
InboundTask(e) == << "inbound", e >>

IsParked(s) == \E i \in 1..Len(parked) : parked[i] = s

\* the reactor (Core::run) polls the spawned tasks only inside mqtt_connect and
\* while it runs the fold
Running == pc \in {"connect", "fold"}
Dead == pc \in {"terminated", "panicked", "hung"}

\* SendCommand with the message put at the front of the queue
SendCommandFront(s, r) ==
    /\ cmdq' = << r >> \o cmdq
    /\ parked' = IF Len(cmdq) + 1 > CmdBuf THEN Append(parked, s) ELSE parked

\* Sender::send on the bounded channel: the message is queued, and the sender
\* parks when the queue is then over the buffer
SendCommand(s, r) ==
    /\ cmdq' = Append(cmdq, r)
    /\ parked' = IF Len(cmdq) + 1 > CmdBuf THEN Append(parked, s) ELSE parked

\* commands_tx.send(r).wait().unwrap() inside a reactor callback: a parked
\* sender blocks the reactor thread, which is also the only receiver
TaskSend(s, r) ==
    IF IsParked(s)
    THEN /\ pc' = "hung"
         /\ UNCHANGED << cmdq, parked >>
    ELSE /\ pc' = pc
         /\ SendCommand(s, r)

\* notifier.try_send(p): a full channel drops the packet (logged)
TrySend(p) ==
    IF Len(notif) < NotifCap
    THEN /\ notif' = Append(notif, p)
         /\ dropped' = dropped
    ELSE /\ notif' = notif
         /\ dropped' = dropped \cup {p}

\* ------------------------------------------------------ Connection::start
Start ==
    /\ pc = "new"
    /\ initial_connect' = initial_connect_of(mqtt_state)
    /\ pc' = "connect"
    /\ attempt' = attempt + 1
    /\ borrows' = {}
    /\ UNCHANGED << opts, mqtt_state, republish, crash, cmdq, parked, notif,
                    dropped, timers, inbound, wire, ticked, pings,
                    unacked_at_end, n_pub, n_env >>

\* ReconnectDecision with the guard of the AfterFirstSuccess arm inverted
ReconnectDecisionInverted(reconnect_opts, initial) ==
    CASE reconnect_opts = "Never" -> "break"
      [] reconnect_opts = "AfterFirstSuccess" /\ initial -> "sleep"
      [] reconnect_opts = "AfterFirstSuccess" -> "break"
      [] reconnect_opts = "Always" -> "sleep"

\* the match on reconnect_opts after a connection error
ReconnectDecision(reconnect_opts, initial) ==
    CASE reconnect_opts = "Never" -> "break"
      [] reconnect_opts = "AfterFirstSuccess" /\ ~initial -> "sleep"
      [] reconnect_opts = "AfterFirstSuccess" -> "break"
      [] reconnect_opts = "Always" -> "sleep"

\* what can happen inside mqtt_connect, and what mqtt_connect makes of it
ConnectOutcomes ==
    IF opts.broker_addr = "unparsable"
    THEN {"addr_parse"}
    ELSE {"io_error", "stream_end", "not_connack", "refused", "accepted"}

mqtt_connect(outcome) ==
    CASE outcome = "addr_parse"  -> "panic"   \* parse().unwrap()
      [] outcome = "io_error"    -> "Err"     \* response?
      [] outcome = "stream_end"  -> "panic"   \* packet.unwrap() on None
      [] outcome = "not_connack" -> "panic"   \* unimplemented!()
      [] outcome = "refused"     -> "Err"     \* handle_incoming_connack(..)?
      [] outcome = "accepted"    -> "Ok"

ConnectPanic(outcome) ==
    /\ pc = "connect"
    /\ outcome \in ConnectOutcomes
    /\ mqtt_connect(outcome) = "panic"
    /\ pc' = "panicked"
    /\ crash' = outcome
    /\ borrows' = {}
    /\ UNCHANGED << opts, mqtt_state, initial_connect, attempt, republish,
                    cmdq, parked, notif, dropped, timers, inbound, wire,
                    ticked, pings, unacked_at_end, n_pub, n_env >>

ConnectErr(outcome) ==
    /\ pc = "connect"
    /\ outcome \in ConnectOutcomes
    /\ mqtt_connect(outcome) = "Err"
    /\ pc' = IF ReconnectDecision(opts.reconnect, initial_connect) = "break"
             THEN "terminated" ELSE "sleep"
    /\ borrows' = {}
    /\ UNCHANGED << opts, mqtt_state, initial_connect, attempt, republish,
                    crash, cmdq, parked, notif, dropped, timers, inbound,
                    wire, ticked, pings, unacked_at_end, n_pub, n_env >>

\* thread::sleep(d) is over: continue 'reconnect
Wake ==
    /\ pc = "sleep"
    /\ attempt < MaxAttempts
    /\ pc' = "connect"
    /\ attempt' = attempt + 1
    /\ wire' = << >>
    /\ UNCHANGED << opts, mqtt_state, initial_connect, republish, crash, cmdq,
                    parked, notif, dropped, timers, inbound, ticked, pings,
                    unacked_at_end, n_pub, n_env, borrows >>

\* Ok(framed): split, spawn the ping timer and the incoming packet task, take
\* the last session's publishes
ConnectOk(outcome) ==
    /\ pc = "connect"
    /\ outcome \in ConnectOutcomes
    /\ mqtt_connect(outcome) = "Ok"
    /\ LET s1 == handle_outgoing_connect(mqtt_state)
           s2 == handle_incoming_connack(s1, Pkt("Connack", 0, 0, Accepted)).state
           last_session_publishes == handle_reconnection(s2)
       IN /\ mqtt_state' = s2
          /\ timers' = IF opts.keep_alive THEN timers \cup {attempt} ELSE timers
          /\ inbound' = [inbound EXCEPT ![attempt] = "alive"]
          /\ republish' = last_session_publishes
          /\ pc' = IF last_session_publishes = << >> THEN "fold" ELSE "republish"
    /\ borrows' = {}
    /\ UNCHANGED << opts, initial_connect, attempt, crash, cmdq, parked,
                    notif, dropped, wire, ticked, pings, unacked_at_end,
                    n_pub, n_env >>

WireEntry(p, v, b) == [pkt |-> p, via |-> v, by |-> b]

\* sender = sender.send(packet).wait().unwrap() for each of them, in order
Republish ==
    /\ pc = "republish"
    /\ \E written \in BOOLEAN :
         IF written
         THEN /\ wire' = Append(wire, WireEntry(Head(republish), "republish", 0))
              /\ republish' = Tail(republish)
              /\ pc' = IF Tail(republish) = << >> THEN "fold" ELSE "republish"
              /\ crash' = crash
         ELSE /\ pc' = "panicked"
              /\ crash' = "republish_write"
              /\ UNCHANGED << wire, republish >>
    /\ borrows' = {}
    /\ UNCHANGED << opts, mqtt_state, initial_connect, attempt, cmdq, parked,
                    notif, dropped, timers, inbound, ticked, pings,
                    unacked_at_end, n_pub, n_env >>

\* one turn of commands_rx.fold: take a command, handle_client_requests(..)
\* .unwrap(), sender.send(packet); a failed send ends reactor.run and the
\* loop goes round
FoldStep ==
    /\ pc = "fold"
    /\ cmdq # << >>
    /\ LET command == Head(cmdq)
           res == handle_client_requests(mqtt_state, command)
       IN /\ cmdq' = Tail(cmdq)
          /\ parked' = IF parked = << >> THEN parked ELSE Tail(parked)
          /\ IF ~res.ok
             THEN /\ pc' = "panicked"
                  /\ crash' = "handle_client_requests"
                  /\ UNCHANGED << mqtt_state, wire, attempt, unacked_at_end >>
             ELSE /\ mqtt_state' = res.state
                  /\ crash' = crash
                  /\ \E written \in BOOLEAN :
                       IF written
                       THEN /\ wire' = Append(wire, WireEntry(res.packet, "fold", command.by))
                            /\ UNCHANGED << pc, attempt, unacked_at_end >>
                       ELSE /\ attempt < MaxAttempts
                            /\ pc' = "connect"
                            /\ attempt' = attempt + 1
                            /\ wire' = << >>
                            /\ unacked_at_end' = res.state.outgoing_pub
    /\ borrows' = {}
    /\ UNCHANGED << opts, initial_connect, republish, notif, dropped, timers,
                    inbound, ticked, pings, n_pub, n_env >>


\* ------------------------------------------------------- spawn_ping_timer
\* the timer task of the latest connection; its firings delimit the keep-alive
\* periods, in each of which every older timer task still in the reactor fires
\* once as well
Newest(e) == \A f \in timers : f <= e

\* TimerTick with the Ref of mqtt_state kept until the send has returned
TimerTickHoldingRef(e) ==
    /\ Running
    /\ e \in timers
    /\ n_env < MaxEvents
    /\ n_env' = n_env + 1
    /\ Newest(e) \/ e \notin ticked
    /\ ticked' = IF Newest(e) THEN {} ELSE ticked \cup {e}
    /\ IF is_ping_required(mqtt_state)
       THEN /\ TaskSend(TimerTask(e), Req("Ping", 0, 0, 0, e))
            /\ pings' = (IF Newest(e) THEN 0 ELSE pings)
                        + (IF IsParked(TimerTask(e)) THEN 0 ELSE 1)
       ELSE /\ pings' = IF Newest(e) THEN 0 ELSE pings
            /\ UNCHANGED << pc, cmdq, parked >>
    /\ borrows' = IF is_ping_required(mqtt_state) /\ IsParked(TimerTask(e))
                  THEN {TimerTask(e)} ELSE {}
    /\ UNCHANGED << opts, mqtt_state, initial_connect, attempt, republish,
                    crash, notif, dropped, timers, inbound, wire,
                    unacked_at_end, n_pub >>

\* one firing of the interval of the timer task of attempt e
TimerTick(e) ==
    /\ Running
    /\ e \in timers
    /\ n_env < MaxEvents
    /\ n_env' = n_env + 1
    /\ Newest(e) \/ e \notin ticked
    /\ ticked' = IF Newest(e) THEN {} ELSE ticked \cup {e}
    /\ IF is_ping_required(mqtt_state)
       THEN /\ TaskSend(TimerTask(e), Req("Ping", 0, 0, 0, e))
            /\ pings' = (IF Newest(e) THEN 0 ELSE pings)
                        + (IF IsParked(TimerTask(e)) THEN 0 ELSE 1)
       ELSE /\ pings' = IF Newest(e) THEN 0 ELSE pings
            /\ UNCHANGED << pc, cmdq, parked >>
    /\ borrows' = {}
    /\ UNCHANGED << opts, mqtt_state, initial_connect, attempt, republish,
                    crash, notif, dropped, timers, inbound, wire,
                    unacked_at_end, n_pub >>

\* ---------------------------------- spawn_incoming_network_packet_handler
InboundConnack(e, connack) ==
    /\ mqtt_state' = handle_incoming_connack(mqtt_state, connack).state
    /\ UNCHANGED << pc, crash, cmdq, parked, notif, dropped, inbound >>

\* InboundPuback with the result of handle_incoming_puback unwrapped
InboundPubackUnwrap(e, ack) ==
    LET res == handle_incoming_puback(mqtt_state, ack) IN
    /\ TrySend(ack)
    /\ mqtt_state' = res.state
    /\ pc' = IF res.ok THEN pc ELSE "panicked"
    /\ crash' = IF res.ok THEN crash ELSE "unsolicited_ack"
    /\ UNCHANGED << cmdq, parked, inbound >>

\* InboundPuback with the session state updated only when the notification
\* went through
InboundPubackIfNotified(e, ack) ==
    /\ TrySend(ack)
    /\ mqtt_state' = IF Len(notif) < NotifCap
                     THEN handle_incoming_puback(mqtt_state, ack).state
                     ELSE mqtt_state
    /\ UNCHANGED << pc, crash, cmdq, parked, inbound >>

InboundPuback(e, ack) ==
    /\ TrySend(ack)
    /\ mqtt_state' = handle_incoming_puback(mqtt_state, ack).state
    /\ UNCHANGED << pc, crash, cmdq, parked, inbound >>

InboundPingresp(e) ==
    /\ mqtt_state' = handle_incoming_pingresp(mqtt_state)
    /\ UNCHANGED << pc, crash, cmdq, parked, notif, dropped, inbound >>

\* InboundPublish with the reply sent only when the notification went through
InboundPublishAckIfNotified(e, publish) ==
    LET r == handle_incoming_publish(mqtt_state, publish) IN
    /\ mqtt_state' = r.state
    /\ TrySend(r.publish)
    /\ IF r.ack # NoPkt /\ Len(notif) < NotifCap
       THEN TaskSend(InboundTask(e), Req("Puback", r.ack.pkid, 0, 0, e))
       ELSE UNCHANGED << pc, cmdq, parked >>
    /\ UNCHANGED << crash, inbound >>

InboundPublish(e, publish) ==
    LET r == handle_incoming_publish(mqtt_state, publish) IN
    /\ mqtt_state' = r.state
    /\ IF r.publish # NoPkt THEN TrySend(r.publish)
       ELSE UNCHANGED << notif, dropped >>
    /\ IF r.ack # NoPkt
       THEN IF r.ack.type = "Puback"
            THEN /\ TaskSend(InboundTask(e), Req("Puback", r.ack.pkid, 0, 0, e))
                 /\ crash' = crash
            ELSE /\ pc' = "panicked"
                 /\ crash' = "unimplemented_ack"
                 /\ UNCHANGED << cmdq, parked >>
       ELSE UNCHANGED << pc, crash, cmdq, parked >>
    /\ UNCHANGED inbound

InboundSuback(e, suback) ==
    /\ TrySend(suback)
    /\ UNCHANGED << mqtt_state, pc, crash, cmdq, parked, inbound >>

\* _ => unimplemented!()
InboundUnhandled(e, message) ==
    /\ pc' = "panicked"
    /\ crash' = "unimplemented_packet"
    /\ UNCHANGED << mqtt_state, cmdq, parked, notif, dropped, inbound >>

\* the closure of receiver.then on Ok(message)
InboundHandle(e, message) ==
    CASE message.type = "Connack"  -> InboundConnack(e, message)
      [] message.type = "Puback"   -> InboundPuback(e, message)
      [] message.type = "Pingresp" -> InboundPingresp(e)
      [] message.type = "Publish"  -> InboundPublish(e, message)
      [] message.type = "Suback"   -> InboundSuback(e, message)
      [] OTHER                     -> InboundUnhandled(e, message)

\* the reactor polls the incoming packet task of attempt e and the codec
\* yields the next frame the broker sent on that transport
InboundStep(e, message) ==
    /\ Running
    /\ inbound[e] = "alive"
    /\ n_env < MaxEvents
    /\ n_env' = n_env + 1
    /\ InboundHandle(e, message)
    /\ borrows' = {}
    /\ UNCHANGED << opts, initial_connect, attempt, republish, timers, wire,
                    ticked, pings, unacked_at_end, n_pub >>

\* the closure of receiver.then on Err(e): Request::Disconnect, then the task
\* ends with the error
InboundError(e) ==
    /\ Running
    /\ inbound[e] = "alive"
    /\ TaskSend(InboundTask(e), Req("Disconnect", 0, 0, 0, e))
    /\ inbound' = IF IsParked(InboundTask(e)) THEN inbound
                  ELSE [inbound EXCEPT ![e] = "done"]
    /\ UNCHANGED << opts, mqtt_state, initial_connect, attempt, republish,
                    crash, notif, dropped, timers, wire, ticked, pings,
                    unacked_at_end, n_pub, n_env, borrows >>

\* the stream ends (the broker closed the transport): for_each is done, and
\* nothing is sent on the command channel
InboundEnd(e) ==
    /\ Running
    /\ inbound[e] = "alive"
    /\ inbound' = [inbound EXCEPT ![e] = "done"]
    /\ UNCHANGED << opts, mqtt_state, pc, initial_connect, attempt, republish,
                    crash, cmdq, parked, notif, dropped, timers, wire, ticked,
                    pings, unacked_at_end, n_pub, n_env, borrows >>

\* ------------------------------------------------------------ environment
\* the application thread sends its next request on its Sender
AppSend(r) ==
    /\ ~Dead
    /\ ~IsParked(App)
    /\ n_pub < MaxPkid
    /\ r \in AppRequests(n_pub + 1)
    /\ n_pub' = n_pub + 1
    /\ SendCommand(App, r)
    /\ UNCHANGED << opts, mqtt_state, pc, initial_connect, attempt, republish,
                    crash, notif, dropped, timers, inbound, wire, ticked,
                    pings, unacked_at_end, n_env, borrows >>

\* the application thread takes a notification
AppRecv ==
    /\ ~Dead
    /\ notif # << >>
    /\ notif' = Tail(notif)
    /\ UNCHANGED << opts, mqtt_state, pc, initial_connect, attempt, republish,
                    crash, cmdq, parked, dropped, timers, inbound, wire,
                    ticked, pings, unacked_at_end, n_pub, n_env, borrows >>

\* ------------------------------------------------------------------- Next
Next ==
    \/ Start
    \/ \E o \in ConnectOutcomes : ConnectPanic(o)
    \/ \E o \in ConnectOutcomes : ConnectErr(o)
    \/ \E o \in ConnectOutcomes : ConnectOk(o)
    \/ Wake
    \/ Republish
    \/ FoldStep
    \/ \E e \in Epochs : TimerTick(e)
    \/ \E e \in Epochs, p \in InPackets : InboundStep(e, p)
    \/ \E e \in Epochs : InboundError(e)
    \/ \E e \in Epochs : InboundEnd(e)
    \/ \E k \in 1..MaxPkid : \E r \in AppRequests(k) : AppSend(r)
    \/ AppRecv

Spec == Init /\ [][Next]_vars

\* the thread of Connection::start runs on: it connects, wakes from its sleep,
\* re-sends, and the reactor polls the fold when a command is there. Nothing
\* is assumed of the broker, the timers' clock or the application.
Orchestrator ==
    \/ Start
    \/ \E o \in ConnectOutcomes : ConnectPanic(o) \/ ConnectErr(o) \/ ConnectOk(o)
    \/ Wake
    \/ Republish
    \/ FoldStep

FairSpec == Spec /\ WF_vars(Orchestrator)

\* ================================================================= claims
\* an attempt succeeded when mqtt_connect returned Ok, which is when its
\* incoming packet task was spawned
Succeeded(e) == inbound[e] # "none"
NoSuccessYet == \A e \in Epochs : ~Succeeded(e)

ConnectPanics == {"addr_parse", "stream_end", "not_connack"}

\* C1: the publishes that were outstanding when an attempt ended are the first
\* packets written on the transport of the next successful connection: all of
\* them, in their order, before any packet of the command fold.
C1_ResumptionResendsAll ==
    (pc = "fold" /\ attempt > 1) =>
        /\ Len(wire) >= Len(unacked_at_end)
        /\ \A i \in 1..Len(wire) :
             IF i <= Len(unacked_at_end)
             THEN wire[i] = WireEntry(unacked_at_end[i], "republish", 0)
             ELSE wire[i].via = "fold"

\* C2: under Never no connection attempt is started after the first one (any
\* further attempt would follow a failure).
C2_NeverNoFurtherAttempt ==
    [][(opts.reconnect = "Never" /\ attempt >= 1) => attempt' = attempt]_vars

\* C3: under AfterFirstSuccess, as long as no attempt has succeeded there is a
\* single attempt and no wait: once it has failed the orchestrator has ended.
C3_AfterFirstSuccessEndsBeforeSuccess ==
    (opts.reconnect = "AfterFirstSuccess" /\ NoSuccessYet) =>
        /\ attempt <= 1
        /\ pc \in {"new", "connect", "terminated", "panicked"}

C3_Witness ==
    /\ opts.reconnect = "AfterFirstSuccess"
    /\ NoSuccessYet
    /\ attempt = 1
    /\ pc = "terminated"

\* C4: under AfterFirstSuccess, once an attempt has succeeded the orchestrator
\* never terminates.
C4_AfterFirstSuccessKeepsRetrying ==
    [][(opts.reconnect = "AfterFirstSuccess" /\ ~NoSuccessYet)
          => pc' # "terminated"]_vars

\* C5: under Always every attempt but the first starts from the wait.
C5_AlwaysWaitsBeforeRetry ==
    [][(opts.reconnect = "Always" /\ attempt >= 1 /\ attempt' > attempt)
          => pc = "sleep"]_vars

\* C6: under Always, while every attempt so far has failed to connect the
\* orchestrator is alive: it has neither terminated nor died.
C6_AlwaysSurvivesConnectFailures ==
    (opts.reconnect = "Always" /\ NoSuccessYet) =>
        pc \notin {"terminated", "panicked"}

C8_UnsolicitedPubackIgnored ==
    [][\A e \in Epochs : \A p \in InPackets :
          (p.type = "Puback" /\ p.pkid \notin Outstanding(mqtt_state)
              /\ InboundStep(e, p))
          => /\ mqtt_state' = mqtt_state
             /\ pc' = pc
             /\ crash' = crash
             /\ inbound' = inbound
             /\ cmdq' = cmdq]_vars

C8_Witness ==
    /\ pc = "fold"
    /\ inbound[attempt] = "alive"
    /\ \E i \in 1..Len(notif) :
         notif[i].type = "Puback" /\ notif[i].pkid > mqtt_state.last_pkid

\* C9: no more than one Ping is injected in one keep-alive period.
C9_OnePingPerPeriod == pings <= 1

\* C10: no error of the connect phase makes the orchestrator panic.
C10_ConnectErrorsDoNotPanic == crash \notin ConnectPanics

\* C11: a failed write on the transport never ends the orchestrator with a
\* panic, neither while the last session's publishes are re-sent nor in the
\* command fold: the attempt ends and the loop goes round.
C11_WriteFailureReenters == crash # "republish_write"

\* C12: a packet of a variant the incoming packet task has no arm for never
\* makes it panic.
C12_UnhandledPacketIgnored == crash # "unimplemented_packet"

\* C13: the Connack of a completed handshake is offered to the notifier, and
\* so is every Connack, Puback, Publish or Suback the incoming packet task
\* handles: queued if there is room, dropped if not.
ForApplication == {"Connack", "Puback", "Publish", "Suback"}

Offered(p) ==
    IF Len(notif) < NotifCap THEN notif' = Append(notif, p) ELSE p \in dropped'

C13_ApplicationPacketsOffered ==
    [][/\ \A o \in ConnectOutcomes :
            ConnectOk(o) => Offered(Pkt("Connack", 0, 0, Accepted))
       /\ \A e \in Epochs : \A p \in InPackets :
            (p.type \in ForApplication /\ InboundStep(e, p)) => Offered(p)]_vars

\* C14: at any time at most one ping timer task and at most one live incoming
\* packet task are in the reactor, those of the current attempt.
LiveInbound == {e \in Epochs : inbound[e] = "alive"}

C14_OneTaskOfEachKind ==
    /\ Cardinality(timers) <= 1
    /\ Cardinality(LiveInbound) <= 1
    /\ \A e \in timers \cup LiveInbound : e = attempt

\* C15: once the incoming packet task of the connected attempt has ended, on a
\* read error or at the end of the stream, the fold of that attempt eventually
\* ends.
C15_InboundEndUnwinds ==
    \A e \in Epochs :
        (pc = "fold" /\ attempt = e /\ inbound[e] = "done")
            ~> (pc # "fold" \/ attempt # e)

\* C16: the command channel is a FIFO (a step appends one request at its end
\* or takes the one at its head), a packet is written on the transport in the
\* fold only for the request at the head of the channel, which is taken with
\* it, and the timer task and the incoming packet task write nothing on the
\* transport themselves.
C16_SingleWriterFifo ==
    [][/\ cmdq' # cmdq =>
            \/ cmdq # << >> /\ cmdq' = Tail(cmdq)
            \/ Len(cmdq') = Len(cmdq) + 1 /\ SubSeq(cmdq', 1, Len(cmdq)) = cmdq
       /\ (pc = "fold" /\ wire' # wire /\ wire' # << >>) =>
            /\ cmdq # << >>
            /\ cmdq' = Tail(cmdq)
            /\ wire' = Append(wire,
                  WireEntry(handle_client_requests(mqtt_state, Head(cmdq)).packet,
                            "fold", Head(cmdq).by))
       /\ \A e \in Epochs :
            (TimerTick(e) \/ InboundError(e) \/ \E p \in InPackets : InboundStep(e, p))
            => wire' = wire]_vars

C16_Witness ==
    /\ pc = "fold"
    /\ \E i, j \in 1..Len(wire) :
         /\ i < j
         /\ wire[i].via = "fold" /\ wire[i].by = 0
         /\ wire[j].via = "fold" /\ wire[j].by = attempt

\* C17: no task is ever blocked in a send on the command channel while the
\* fold, the only receiver, cannot run.
C17_NoBlockedSend == pc # "hung"

C20_OwnCommandsOnly ==
    \A i \in 1..Len(wire) : wire[i].by \in {0, attempt}

====
